---- MODULE Spec2Model ----
(***************************************************************************)
(* Model of the Monte Carlo simulation and risk engine of                  *)
(* quant_finance_toolkit: the path generators (models/stochastic.py,       *)
(* models/vasicek.py, the script 06_wienerProcess.py), the Monte Carlo     *)
(* estimators (models/monte_carlo.py), the option pricer                  *)
(* (pricing/options.py) and the Value-at-Risk estimators (risk/var.py);    *)
(* the market-data                                                         *)
(* analyses (crypto/risk.py, crypto/models.py, portfolio/markowitz.py)     *)
(* with the fetchers they call (data/fetchers.py), and the CAPM object     *)
(* (portfolio/capm.py).                                                    *)
(*                                                                         *)
(* Floating-point values are fixed-point integers in units of 1/SCALE.     *)
(* NaN is a reserved value that every arithmetic operator propagates.      *)
(* The shared numpy generator is the counter rng (variates drawn so far);  *)
(* the variates themselves are inputs of the actions, drawn from ZSet.     *)
(* The data source is an input too: the histories it holds are chosen by   *)
(* the action that calls a fetcher.                                        *)
(***************************************************************************)
EXTENDS Integers, Sequences, FiniteSets, TLC

VARIABLES rng, call, ret, opt, vmc, capm

vars == <<rng, call, ret, opt, vmc, capm>>

----------------------------------------------------------------------------
(* Bounds of the model *)

\* largest step count N / n / num_points given to a path generator
MaxN == 3
\* largest trial count (iterations, num_simulations)
MaxIter == 3
\* the generator position is followed up to this many variates
MaxRng == 4

----------------------------------------------------------------------------
(* Fixed-point arithmetic standing for numpy float64 *)

SCALE == 1000

NaN == -1000000000

IsNaN(a) == a = NaN

Abs(a) == IF a < 0 THEN -a ELSE a

\* p / q to the nearest unit, for q > 0
RoundDiv(p, q) == (p + q \div 2) \div q

Add(a, b) == IF IsNaN(a) \/ IsNaN(b) THEN NaN ELSE a + b

Sub(a, b) == IF IsNaN(a) \/ IsNaN(b) THEN NaN ELSE a - b

Neg(a) == IF IsNaN(a) THEN NaN ELSE -a

\* a * b / SCALE to the nearest unit; a is split into whole and fractional
\* part so that the intermediate product stays in range
Mul(a, b) ==
    IF IsNaN(a) \/ IsNaN(b) THEN NaN
    ELSE (a \div SCALE) * b + RoundDiv((a % SCALE) * b, SCALE)

\* a / k for a positive count k (float divided by an int)
DivInt(a, k) == IF IsNaN(a) THEN NaN ELSE RoundDiv(a, k)

\* numpy float64 a / float(k): 0.0 / 0.0 is NaN (a RuntimeWarning, no exception)
DivFloat(a, k) == IF IsNaN(a) \/ k = 0 THEN NaN ELSE RoundDiv(a, k)

\* max(a, b) as np.amax computes it: NaN wins
Max(a, b) == IF IsNaN(a) \/ IsNaN(b) THEN NaN ELSE IF a >= b THEN a ELSE b

RECURSIVE SqrtSearch(_, _, _)
SqrtSearch(v, lo, hi) ==
    IF lo >= hi THEN lo
    ELSE LET mid == (lo + hi + 1) \div 2
         IN  IF mid * mid <= v THEN SqrtSearch(v, mid, hi)
                               ELSE SqrtSearch(v, lo, mid - 1)

\* np.sqrt: NaN (with a RuntimeWarning, no exception) for a negative argument
Sqrt(a) ==
    IF IsNaN(a) \/ a < 0 THEN NaN
    ELSE LET v == a * SCALE
             r == SqrtSearch(v, 0, 46340)
         IN  IF v - r * r > r THEN r + 1 ELSE r

RECURSIVE ExpSeries(_, _, _, _)
ExpSeries(x, k, term, acc) ==
    IF term = 0 THEN acc
    ELSE LET next == RoundDiv(term * x, k * SCALE)
         IN  ExpSeries(x, k + 1, next, acc + term)

\* np.exp: strictly positive on the whole range the model's inputs reach
Exp(x) ==
    IF IsNaN(x) THEN NaN
    ELSE IF x >= 0 THEN ExpSeries(x, 1, SCALE, 0)
    ELSE RoundDiv(SCALE * SCALE, ExpSeries(-x, 1, SCALE, 0))

RECURSIVE SumSeq(_)
SumSeq(s) == IF s = <<>> THEN 0 ELSE Add(Head(s), SumSeq(Tail(s)))

\* np.cumsum
CumSum(s) == [i \in 1..Len(s) |-> SumSeq(SubSeq(s, 1, i))]

\* np.linspace(start, stop, num): num evenly spaced points, the last one set
\* to stop exactly when num > 1
Linspace(start, stop, num) ==
    [i \in 1..num |->
        IF num = 1 THEN start
        ELSE IF i = num THEN stop
        ELSE start + RoundDiv((i - 1) * (stop - start), num - 1)]

----------------------------------------------------------------------------
(* Input domains *)

\* standard-normal variates the generator may hand out
ZSet == {-1 * SCALE, 0, SCALE}

Draws(k) == [1..k -> ZSet]

TSet == {-1 * SCALE, 0, SCALE, 2 * SCALE}

NSet == 0..MaxN

S0Set == {SCALE, 50 * SCALE}

MuSet == {0, 100}

SigmaSet == {-500, 0, 500}

----------------------------------------------------------------------------
(* Results handed back to the caller *)

NoRet == [kind |-> "none", err |-> "", t |-> <<>>, x |-> <<>>, v |-> 0]

PathRet(t, x) == [kind |-> "path", err |-> "", t |-> t, x |-> x, v |-> 0]

ValueRet(v) == [kind |-> "value", err |-> "", t |-> <<>>, x |-> <<>>, v |-> v]

ErrorRet(e) == [kind |-> "error", err |-> e, t |-> <<>>, x |-> <<>>, v |-> 0]

NoObj == [made |-> FALSE]

----------------------------------------------------------------------------
(* models/stochastic.py and models/vasicek.py: the path generators.         *)
(* Each operator takes the call's arguments and the variates z the          *)
(* generator hands out during the call, and yields the value returned       *)
(* (ret) and the number of variates consumed (used).                        *)

Outcome(r, k) == [ret |-> r, used |-> k]

\* npr.normal(loc = 0, scale, size = n): scale * z for n fresh variates
NormalArray(scale, z) == [i \in 1..Len(z) |-> Mul(scale, z[i])]

wiener_process(dt, x0, n, z) ==
    LET w == <<0>> \o CumSum(NormalArray(Sqrt(dt), z))
        t == Linspace(x0, n * SCALE, n + 1)
    IN  Outcome(PathRet(t, w), n)

\* npr.normal(loc, scale, n): n variates of mean loc and deviation scale
NormalArrayLoc(loc, scale, z) == [i \in 1..Len(z) |-> Add(loc, Mul(scale, z[i]))]

\* the wiener_process of the script 06_wienerProcess.py
wiener_process_script(dt, x0, n, z) ==
    LET w == <<0>> \o CumSum(NormalArrayLoc(SCALE, Sqrt(dt), z))
        t == Linspace(x0, n * SCALE, n + 1)
    IN  Outcome(PathRet(t, w), n)

\* simulate_gbm with the exponential replaced by its first-order expansion
simulate_gbm_linear(s0, T, N, mu, sigma, z) ==
    IF N = 0 THEN Outcome(ErrorRet("ZeroDivisionError"), 0)
    ELSE LET dt == DivInt(T, N)
             t  == Linspace(0, T, N)
             cs == CumSum(z)
             W  == [i \in 1..N |-> Mul(cs[i], Sqrt(dt))]
             drift == Sub(mu, Mul(SCALE \div 2, Mul(sigma, sigma)))
             X  == [i \in 1..N |-> Add(Mul(drift, t[i]), Mul(sigma, W[i]))]
             S  == [i \in 1..N |-> Mul(s0, Add(SCALE, X[i]))]
         IN  Outcome(PathRet(t, S), N)

simulate_gbm(s0, T, N, mu, sigma, z) ==
    IF N = 0 THEN Outcome(ErrorRet("ZeroDivisionError"), 0)
    ELSE LET dt == DivInt(T, N)
             t  == Linspace(0, T, N)
             cs == CumSum(z)
             W  == [i \in 1..N |-> Mul(cs[i], Sqrt(dt))]
             drift == Sub(mu, Mul(SCALE \div 2, Mul(sigma, sigma)))
             X  == [i \in 1..N |-> Add(Mul(drift, t[i]), Mul(sigma, W[i]))]
             S  == [i \in 1..N |-> Mul(s0, Exp(X[i]))]
         IN  Outcome(PathRet(t, S), N)

\* the Euler-Maruyama loop of vasicek_model
RECURSIVE RatePath(_, _, _, _, _, _)
RatePath(rates, kappa, theta, sigma, dt, z) ==
    IF z = <<>> THEN rates
    ELSE LET last == rates[Len(rates)]
             dr == Add(Mul(Mul(kappa, Sub(theta, last)), dt),
                       Mul(Mul(sigma, Sqrt(dt)), Head(z)))
         IN  RatePath(Append(rates, Add(last, dr)), kappa, theta, sigma, dt, Tail(z))

vasicek_model(r0, kappa, theta, sigma, T, N, z) ==
    IF N = 0 THEN Outcome(ErrorRet("ZeroDivisionError"), 0)
    ELSE LET dt == DivInt(T, N)
             t  == Linspace(0, T, N + 1)
         IN  Outcome(PathRet(t, RatePath(<<r0>>, kappa, theta, sigma, dt, z)), N)

\* the OU loop with every value clamped at zero from below
RECURSIVE OuPathClamped(_, _, _, _, _, _)
OuPathClamped(x, dt, theta, mu, sigma, z) ==
    IF z = <<>> THEN x
    ELSE LET last == x[Len(x)]
             nxt == Add(Add(last, Mul(Mul(theta, Sub(mu, last)), dt)),
                        Mul(sigma, Mul(Sqrt(dt), Head(z))))
         IN  OuPathClamped(Append(x, Max(0, nxt)), dt, theta, mu, sigma, Tail(z))

RECURSIVE OuPath(_, _, _, _, _, _)
OuPath(x, dt, theta, mu, sigma, z) ==
    IF z = <<>> THEN x
    ELSE LET last == x[Len(x)]
             nxt == Add(Add(last, Mul(Mul(theta, Sub(mu, last)), dt)),
                        Mul(sigma, Mul(Sqrt(dt), Head(z))))
         IN  OuPath(Append(x, nxt), dt, theta, mu, sigma, Tail(z))

generate_ornstein_uhlenbeck(dt, theta, mu, sigma, n, z) ==
    IF n = 0 THEN Outcome(PathRet(<<>>, <<>>), 0)
    ELSE Outcome(PathRet(<<>>, OuPath(<<0>>, dt, theta, mu, sigma, z)), n - 1)

\* variates a call asks of the generator, as a function of its step count
WienerDraws(n) == n
GbmDraws(N) == N
VasicekDraws(N) == N
OuDraws(n) == IF n = 0 THEN 0 ELSE n - 1

----------------------------------------------------------------------------
(* Actions: one call of a path generator *)

DtSet == {-100, 100, SCALE}

X0Set == {0, SCALE}

RateSet == {-50, 500}

KappaSet == {0, 300, 1500}

Frame == UNCHANGED <<opt, vmc, capm>>

NoCall == [at |-> 0, op |-> "none"]

\* the program is between calls: the previous result has been consumed
Idle == call.op = "none"

\* the caller takes the returned value; nothing of the call survives but the
\* generator's position
Consume ==
    /\ ~Idle
    /\ call' = NoCall
    /\ ret' = NoRet
    /\ UNCHANGED <<rng, opt, vmc, capm>>

CallWiener ==
    \E dt \in DtSet, x0 \in X0Set, n \in NSet :
      /\ Idle
      /\ rng + WienerDraws(n) <= MaxRng
      /\ \E z \in Draws(WienerDraws(n)) :
           LET o == wiener_process(dt, x0, n, z)
           IN  /\ call' = [at |-> rng, op |-> "wiener_process", dt |-> dt, x0 |-> x0, n |-> n, z |-> z]
               /\ ret' = o.ret
               /\ rng' = rng + o.used
      /\ Frame

CallWienerScript ==
    \E dt \in DtSet, x0 \in X0Set, n \in NSet :
      /\ Idle
      /\ rng + WienerDraws(n) <= MaxRng
      /\ \E z \in Draws(WienerDraws(n)) :
           LET o == wiener_process_script(dt, x0, n, z)
           IN  /\ call' = [at |-> rng, op |-> "06_wienerProcess.wiener_process", dt |-> dt, x0 |-> x0, n |-> n, z |-> z]
               /\ ret' = o.ret
               /\ rng' = rng + o.used
      /\ Frame

CallGbm ==
    \E s0 \in S0Set, T \in TSet, N \in NSet, mu \in MuSet, sigma \in SigmaSet :
      /\ Idle
      /\ rng + GbmDraws(N) <= MaxRng
      /\ \E z \in Draws(GbmDraws(N)) :
           LET o == simulate_gbm(s0, T, N, mu, sigma, z)
           IN  /\ call' = [at |-> rng, op |-> "simulate_gbm", s0 |-> s0, T |-> T, N |-> N,
                           mu |-> mu, sigma |-> sigma, z |-> z]
               /\ ret' = o.ret
               /\ rng' = rng + o.used
      /\ Frame

CallVasicek ==
    \E r0 \in RateSet, kappa \in KappaSet, theta \in RateSet,
       sigma \in SigmaSet, T \in TSet, N \in NSet :
      /\ Idle
      /\ rng + VasicekDraws(N) <= MaxRng
      /\ \E z \in Draws(VasicekDraws(N)) :
           LET o == vasicek_model(r0, kappa, theta, sigma, T, N, z)
           IN  /\ call' = [at |-> rng, op |-> "vasicek_model", r0 |-> r0, kappa |-> kappa,
                           theta |-> theta, sigma |-> sigma, T |-> T, N |-> N, z |-> z]
               /\ ret' = o.ret
               /\ rng' = rng + o.used
      /\ Frame

CallOu ==
    \E dt \in DtSet, theta \in KappaSet, mu \in RateSet, sigma \in SigmaSet, n \in NSet :
      /\ Idle
      /\ rng + OuDraws(n) <= MaxRng
      /\ \E z \in Draws(OuDraws(n)) :
           LET o == generate_ornstein_uhlenbeck(dt, theta, mu, sigma, n, z)
           IN  /\ call' = [at |-> rng, op |-> "generate_ornstein_uhlenbeck", dt |-> dt, theta |-> theta,
                           mu |-> mu, sigma |-> sigma, n |-> n, z |-> z]
               /\ ret' = o.ret
               /\ rng' = rng + o.used
      /\ Frame

InitPath ==
    /\ rng = 0
    /\ call = NoCall
    /\ ret = NoRet
    /\ opt = NoObj
    /\ vmc = NoObj
    /\ capm = NoObj

NextPath == CallGbm \/ CallVasicek \/ CallWiener \/ CallWienerScript \/ CallOu \/ Consume

SpecPath == InitPath /\ [][NextPath]_vars

----------------------------------------------------------------------------
(* pricing/options.py, risk/var.py, models/vasicek.py: the estimators *)

RECURSIVE Insert(_, _)
Insert(v, s) ==
    IF s = <<>> THEN <<v>>
    ELSE IF v <= Head(s) THEN <<v>> \o s
    ELSE <<Head(s)>> \o Insert(v, Tail(s))

\* np.sort
RECURSIVE NpSort(_)
NpSort(s) == IF s = <<>> THEN <<>> ELSE Insert(Head(s), NpSort(Tail(s)))

\* scipy.stats.norm.ppf, tabulated at the tail probabilities the model uses
NormPpf(p) ==
    CASE p = 10  -> -2326
      [] p = 50  -> -1645
      [] p = 100 -> -1282
      [] p = 500 -> 0
      [] p = 900 -> 1282
      [] p = 950 -> 1645
      [] p = 990 -> 2326
      [] OTHER   -> NaN

\* np.percentile(a, q) of a sorted non-empty array, linear interpolation
\* between the two order statistics around the index q/100 * (len - 1)
Percentile(a, q) ==
    LET k    == Len(a)
        vidx == RoundDiv(q * (k - 1), 100)
        lo   == vidx \div SCALE
        g    == vidx % SCALE
    IN  IF lo + 1 >= k THEN a[k]
        ELSE Add(a[lo + 1], Mul(Sub(a[lo + 2], a[lo + 1]), g))

\* the one-step GBM terminal value S * exp((m - sigma^2/2) * h + sigma * sqrt(h) * z)
Terminal(S, m, sigma, h, zi) ==
    Mul(S, Exp(Add(Mul(Sub(m, Mul(SCALE \div 2, Mul(sigma, sigma))), h),
                   Mul(Mul(sigma, Sqrt(h)), zi))))

\* call_option_price averaging the raw difference S_T - E, without the floor at 0
call_option_price_nofloor(self, z) ==
    LET stock_price == [i \in 1..self.iterations |->
                           Terminal(self.S0, self.rf, self.sigma, self.T, z[i])]
        payoff == [i \in 1..self.iterations |-> Sub(stock_price[i], self.E)]
        average_option_price == DivFloat(SumSeq(payoff), self.iterations)
        present_value == Mul(average_option_price, Exp(Neg(Mul(self.rf, self.T))))
    IN  Outcome(ValueRet(present_value), self.iterations)

\* the call price with the discounting to present value left out
call_option_price_undiscounted(self, z) ==
    LET stock_price == [i \in 1..self.iterations |->
                           Terminal(self.S0, self.rf, self.sigma, self.T, z[i])]
        payoff == [i \in 1..self.iterations |-> Max(0, Sub(stock_price[i], self.E))]
        average_option_price == DivFloat(SumSeq(payoff), self.iterations)
    IN  Outcome(ValueRet(average_option_price), self.iterations)

\* OptionPriceMonteCarlo.call_option_price
call_option_price(self, z) ==
    LET stock_price == [i \in 1..self.iterations |->
                           Terminal(self.S0, self.rf, self.sigma, self.T, z[i])]
        payoff == [i \in 1..self.iterations |-> Max(0, Sub(stock_price[i], self.E))]
        average_option_price == DivFloat(SumSeq(payoff), self.iterations)
        present_value == Mul(average_option_price, Exp(Neg(Mul(self.rf, self.T))))
    IN  Outcome(ValueRet(present_value), self.iterations)

\* OptionPriceMonteCarlo.put_option_price
put_option_price(self, z) ==
    LET stock_price == [i \in 1..self.iterations |->
                           Terminal(self.S0, self.rf, self.sigma, self.T, z[i])]
        payoff == [i \in 1..self.iterations |-> Max(0, Sub(self.E, stock_price[i]))]
        average_option_price == DivFloat(SumSeq(payoff), self.iterations)
        present_value == Mul(average_option_price, Exp(Neg(Mul(self.rf, self.T))))
    IN  Outcome(ValueRet(present_value), self.iterations)

\* value_at_risk_n
value_at_risk_n(position, c, mu, sigma, n) ==
    Mul(position, Sub(Mul(mu, n * SCALE), Mul(Mul(NormPpf(Sub(SCALE, c)), sigma), Sqrt(n * SCALE))))

\* simulation reading the percentile off the ensemble in trial order
simulation_unsorted(self, z, emptyRaises) ==
    LET portfolio_values == [i \in 1..self.iterations |->
                               Terminal(self.S, self.mu, self.sigma, self.n * SCALE, z[i])]
        q == Mul(Sub(SCALE, self.c), 100 * SCALE)
    IN  IF q < 0 \/ q > 100 * SCALE THEN Outcome(ErrorRet("ValueError"), self.iterations)
        ELSE IF self.iterations = 0
             THEN Outcome(IF emptyRaises THEN ErrorRet("IndexError") ELSE ValueRet(NaN), 0)
        ELSE Outcome(ValueRet(Sub(self.S, Percentile(portfolio_values, q))), self.iterations)

\* ValueAtRiskMonteCarlo.simulation.  np.percentile of an empty ensemble
\* raises IndexError or yields NaN depending on the numpy release:
\* emptyRaises selects which.
simulation(self, z, emptyRaises) ==
    LET portfolio_values == NpSort([i \in 1..self.iterations |->
                               Terminal(self.S, self.mu, self.sigma, self.n * SCALE, z[i])])
        q == Mul(Sub(SCALE, self.c), 100 * SCALE)
    IN  IF q < 0 \/ q > 100 * SCALE THEN Outcome(ErrorRet("ValueError"), self.iterations)
        ELSE IF self.iterations = 0
             THEN Outcome(IF emptyRaises THEN ErrorRet("IndexError") ELSE ValueRet(NaN), 0)
        ELSE Outcome(ValueRet(Sub(self.S, Percentile(portfolio_values, q))), self.iterations)

\* every trial reading the generator's stream from its start
DrawIndexShared(j, i, num_points) == i

\* the place, in the order the generator hands its variates out, of the one
\* that step i of trial j consumes: the inner loop runs num_points times
\* inside each pass of the outer loop
DrawIndex(j, i, num_points) == (j - 1) * num_points + i

\* the variates trial j consumes, in step order
TrialDraws(z, j, num_points) == [i \in 1..num_points |-> z[DrawIndex(j, i, num_points)]]

\* the inner loop with the rate floored at zero
RECURSIVE BondRatePathFloored(_, _, _, _, _, _)
BondRatePathFloored(rates, kappa, theta, sigma, dt, z) ==
    IF z = <<>> THEN rates
    ELSE LET dr == Add(Mul(Mul(kappa, Sub(theta, rates[Len(rates)])), dt),
                       Mul(Mul(sigma, Sqrt(dt)), Head(z)))
         IN  BondRatePathFloored(Append(rates, Max(0, Add(rates[Len(rates)], dr))), kappa, theta, sigma, dt, Tail(z))

\* the inner loop of monte_carlo_bond_pricing: one rate appended per draw
RECURSIVE BondRatePath(_, _, _, _, _, _)
BondRatePath(rates, kappa, theta, sigma, dt, z) ==
    IF z = <<>> THEN rates
    ELSE LET dr == Add(Mul(Mul(kappa, Sub(theta, rates[Len(rates)])), dt),
                       Mul(Mul(sigma, Sqrt(dt)), Head(z)))
         IN  BondRatePath(Append(rates, Add(rates[Len(rates)], dr)), kappa, theta, sigma, dt, Tail(z))

\* the outer loop of monte_carlo_bond_pricing: one rate list per trial
BondResults(r0, kappa, theta, sigma, dt, num_simulations, num_points, z) == [j \in 1..num_simulations |-> BondRatePath(<<r0>>, kappa, theta, sigma, dt, TrialDraws(z, j, num_points))]

\* the bond estimator integrating over the num_points samples after r0 only
monte_carlo_bond_pricing_skip_first(x, r0, kappa, theta, sigma, T, num_simulations, num_points, z) ==
    IF num_points = 0 THEN Outcome(ErrorRet("ZeroDivisionError"), 0)
    ELSE LET dt == DivInt(T, num_points)
             results == BondResults(r0, kappa, theta, sigma, dt, num_simulations, num_points, z)
             integral_sum == [j \in 1..num_simulations |-> Mul(SumSeq(Tail(results[j])), dt)]
             present_integral_value ==
                 [j \in 1..num_simulations |-> Exp(Neg(integral_sum[j]))]
             mean == DivFloat(SumSeq(present_integral_value), num_simulations)
         IN  Outcome(ValueRet(Mul(x, mean)), num_simulations * num_points)

\* the bond estimator with the discount factor cut to first order, 1 - integral
monte_carlo_bond_pricing_linear(x, r0, kappa, theta, sigma, T, num_simulations, num_points, z) ==
    IF num_points = 0 THEN Outcome(ErrorRet("ZeroDivisionError"), 0)
    ELSE LET dt == DivInt(T, num_points)
             results == BondResults(r0, kappa, theta, sigma, dt, num_simulations, num_points, z)
             integral_sum == [j \in 1..num_simulations |-> Mul(SumSeq(results[j]), dt)]
             present_integral_value ==
                 [j \in 1..num_simulations |-> Sub(SCALE, integral_sum[j])]
             mean == DivFloat(SumSeq(present_integral_value), num_simulations)
         IN  Outcome(ValueRet(Mul(x, mean)), num_simulations * num_points)

\* the bond estimator compounding at the path's rates instead of discounting
monte_carlo_bond_pricing_growth(x, r0, kappa, theta, sigma, T, num_simulations, num_points, z) ==
    IF num_points = 0 THEN Outcome(ErrorRet("ZeroDivisionError"), 0)
    ELSE LET dt == DivInt(T, num_points)
             results == BondResults(r0, kappa, theta, sigma, dt, num_simulations, num_points, z)
             integral_sum == [j \in 1..num_simulations |-> Mul(SumSeq(results[j]), dt)]
             present_integral_value ==
                 [j \in 1..num_simulations |-> Exp(integral_sum[j])]
             mean == DivFloat(SumSeq(present_integral_value), num_simulations)
         IN  Outcome(ValueRet(Mul(x, mean)), num_simulations * num_points)

\* monte_carlo_bond_pricing; z holds the num_simulations * num_points variates
\* in the order the nested loops draw them
monte_carlo_bond_pricing(x, r0, kappa, theta, sigma, T, num_simulations, num_points, z) ==
    IF num_points = 0 THEN Outcome(ErrorRet("ZeroDivisionError"), 0)
    ELSE LET dt == DivInt(T, num_points)
             results == BondResults(r0, kappa, theta, sigma, dt, num_simulations, num_points, z)
             integral_sum == [j \in 1..num_simulations |-> Mul(SumSeq(results[j]), dt)]
             present_integral_value ==
                 [j \in 1..num_simulations |-> Exp(Neg(integral_sum[j]))]
             mean == DivFloat(SumSeq(present_integral_value), num_simulations)
         IN  Outcome(ValueRet(Mul(x, mean)), num_simulations * num_points)

----------------------------------------------------------------------------
(* Actions: the estimators *)

IterSet == 0..MaxIter

OptS0Set == {40 * SCALE, 50 * SCALE}

StrikeSet == {45 * SCALE, 100 * SCALE}

HorizonSet == {SCALE, 2 * SCALE}

RfSet == {0, 50}

VolSet == {0, 500}

\* OptionPriceMonteCarlo.__init__
NewOption(S0, E, T, rf, sigma, iterations) ==
    [made |-> TRUE, S0 |-> S0, E |-> E, T |-> T, rf |-> rf, sigma |-> sigma,
     iterations |-> iterations]

OptionObjects ==
    { NewOption(S0, E, T, rf, sigma, it) :
        S0 \in OptS0Set, E \in StrikeSet, T \in HorizonSet, rf \in RfSet,
        sigma \in VolSet, it \in IterSet }

PositionSet == {100 * SCALE}

DriftSet == {-200, 0, 1, 200}

DailyVolSet == {0, 20, 200}

CSet == {900, 950, 990}

DaysSet == {1, 2}

\* ValueAtRiskMonteCarlo.__init__
NewVar(S, mu, sigma, c, n, iterations) ==
    [made |-> TRUE, S |-> S, mu |-> mu, sigma |-> sigma, c |-> c, n |-> n,
     iterations |-> iterations]

\* confidence levels outside the open interval (0, 1)
BadCSet == {-100, 0, SCALE, 1500}

VarObjects ==
    { NewVar(S, mu, sigma, c, n, it) :
        S \in PositionSet, mu \in DriftSet, sigma \in DailyVolSet, c \in CSet,
        n \in DaysSet, it \in IterSet }
    \cup { NewVar(S, 0, 20, c, 1, it) : S \in PositionSet, c \in BadCSet, it \in IterSet }

\* a pricer that keeps the price it computed in a field of the object
OptCallKeepsPrice ==
    /\ Idle /\ opt.made
    /\ rng + opt.iterations <= MaxRng
    /\ \E z \in Draws(opt.iterations) :
         LET o == call_option_price(opt, z)
         IN  /\ call' = [at |-> rng, op |-> "call_option_price", z |-> z]
             /\ ret' = o.ret
             /\ rng' = rng + o.used
             /\ opt' = [f \in DOMAIN opt \cup {"price"} |-> IF f = "price" THEN o.ret.v ELSE opt[f]]
    /\ UNCHANGED <<vmc, capm>>

OptCall ==
    /\ Idle /\ opt.made
    /\ rng + opt.iterations <= MaxRng
    /\ \E z \in Draws(opt.iterations) :
         LET o == call_option_price(opt, z)
         IN  /\ call' = [at |-> rng, op |-> "call_option_price", z |-> z]
             /\ ret' = o.ret
             /\ rng' = rng + o.used
    /\ Frame

OptPut ==
    /\ Idle /\ opt.made
    /\ rng + opt.iterations <= MaxRng
    /\ \E z \in Draws(opt.iterations) :
         LET o == put_option_price(opt, z)
         IN  /\ call' = [at |-> rng, op |-> "put_option_price", z |-> z]
             /\ ret' = o.ret
             /\ rng' = rng + o.used
    /\ Frame

VarSim ==
    /\ Idle /\ vmc.made
    /\ rng + vmc.iterations <= MaxRng
    /\ \E z \in Draws(vmc.iterations), emptyRaises \in BOOLEAN :
         LET o == simulation(vmc, z, emptyRaises)
         IN  /\ call' = [at |-> rng, op |-> "simulation", z |-> z]
             /\ ret' = o.ret
             /\ rng' = rng + o.used
    /\ Frame

\* the scripts that call the free functions construct no estimator object
NoObjects == ~opt.made /\ ~vmc.made

BigPositionSet == {100 * SCALE, 1000000 * SCALE}

CallVarN ==
    /\ Idle /\ NoObjects
    /\ \E position \in BigPositionSet, c \in CSet, mu \in DriftSet,
          sigma \in DailyVolSet, n \in DaysSet :
         /\ call' = [at |-> rng, op |-> "value_at_risk_n", position |-> position,
                     c |-> c, mu |-> mu, sigma |-> sigma, n |-> n]
         /\ ret' = ValueRet(value_at_risk_n(position, c, mu, sigma, n))
    /\ UNCHANGED rng
    /\ Frame

FaceSet == {1000 * SCALE}

CallBond ==
    /\ Idle /\ NoObjects
    /\ \E x \in FaceSet, r0 \in RateSet, kappa \in KappaSet, theta \in RateSet,
          sigma \in VolSet, T \in HorizonSet, M \in IterSet, N \in NSet :
         /\ rng + M * N <= MaxRng
         /\ \E z \in Draws(M * N) :
              LET o == monte_carlo_bond_pricing(x, r0, kappa, theta, sigma, T, M, N, z)
              IN  /\ call' = [at |-> rng, op |-> "monte_carlo_bond_pricing", x |-> x,
                              r0 |-> r0, kappa |-> kappa, theta |-> theta,
                              sigma |-> sigma, T |-> T, num_simulations |-> M,
                              num_points |-> N, z |-> z]
                  /\ ret' = o.ret
                  /\ rng' = rng + o.used
    /\ Frame

\* a script constructs one option pricer, or one VaR estimator, or none
InitMC ==
    /\ rng = 0
    /\ call = NoCall
    /\ ret = NoRet
    /\ \/ opt \in OptionObjects /\ vmc = NoObj
       \/ opt = NoObj /\ vmc \in VarObjects
       \/ opt = NoObj /\ vmc = NoObj
    /\ capm = NoObj

NextMC == OptCall \/ OptPut \/ VarSim \/ CallVarN \/ CallBond \/ Consume

SpecMC == InitMC /\ [][NextMC]_vars

----------------------------------------------------------------------------
(* Market data: the data source, the fetchers and the pandas statistics *)

\* float64 +inf and -inf, as numpy division by zero yields them
PosInf == 1000000000

NegInf == -1000000001

IsInf(a) == a = PosInf \/ a = NegInf

\* numpy float64 a / b: x / 0 is +-inf and 0 / 0 is NaN (a RuntimeWarning,
\* no exception)
Div(a, b) ==
    IF IsNaN(a) \/ IsNaN(b) THEN NaN
    ELSE IF b = 0 THEN (IF a = 0 THEN NaN ELSE IF a > 0 THEN PosInf ELSE NegInf)
    ELSE IF b > 0 THEN RoundDiv(a * SCALE, b)
    ELSE RoundDiv((-a) * SCALE, -b)

\* the largest |log| the model's price ratios reach
LogRange == 2 * SCALE

RECURSIVE LogSearch(_, _, _)
LogSearch(x, lo, hi) ==
    IF hi - lo <= 1 THEN (IF x - Exp(lo) <= Exp(hi) - x THEN lo ELSE hi)
    ELSE LET mid == (lo + hi) \div 2
         IN  IF Exp(mid) <= x THEN LogSearch(x, mid, hi) ELSE LogSearch(x, lo, mid)

\* np.log, the inverse of Exp: NaN for a negative argument, -inf at 0
Log(x) ==
    IF IsNaN(x) \/ x < 0 THEN NaN
    ELSE IF x = 0 THEN NegInf
    ELSE LogSearch(x, -LogRange, LogRange)

\* Series.dropna()
DropNa(s) == SelectSeq(s, LAMBDA v : ~IsNaN(v))

\* np.log(prices / prices.shift(1)) of one column: the first row has no
\* predecessor and is NaN
LogReturns(prices) == [i \in 1..Len(prices) |-> IF i = 1 THEN NaN ELSE Log(Div(prices[i], prices[i - 1]))]

\* Series.mean(): skips NaN; NaN for no observation
Mean(s) == LET d == DropNa(s) IN DivFloat(SumSeq(d), Len(d))

\* pandas cov of two aligned columns: pairwise complete rows, ddof = 1, so
\* NaN for fewer than two rows
Cov(a, b) ==
    LET rows == {i \in 1..Len(a) : ~IsNaN(a[i]) /\ ~IsNaN(b[i])}
        pa   == SelectSeq([i \in 1..Len(a) |-> IF i \in rows THEN a[i] ELSE NaN], LAMBDA v : ~IsNaN(v))
        pb   == SelectSeq([i \in 1..Len(b) |-> IF i \in rows THEN b[i] ELSE NaN], LAMBDA v : ~IsNaN(v))
        ma   == Mean(pa)
        mb   == Mean(pb)
        n    == Len(pa)
    IN  IF n < 2 THEN NaN
        ELSE DivFloat(SumSeq([i \in 1..n |-> Mul(Sub(pa[i], ma), Sub(pb[i], mb))]), n - 1)

\* Series.std(): ddof = 1, NaN for fewer than two observations
Std(s) == Sqrt(Cov(s, s))

\* the tickers the model asks the data source for
CryptoTickers == {"BTC-USD", "ETH-USD"}

StockTickers == {"AAPL", "MSFT"}

\* the closing prices the data source holds for one ticker on the dates of
\* the requested range: none at all, a flat series, two moving series, and
\* an asset listed after the first date (NaN once the columns are aligned)
HistorySet == {<<>>, <<5 * SCALE, 5 * SCALE, 5 * SCALE>>, <<10 * SCALE, 11 * SCALE, 9900>>, <<10 * SCALE, 9 * SCALE, 10800>>, <<NaN, 10 * SCALE, 11 * SCALE>>}

Range(s) == {s[i] : i \in 1..Len(s)}

\* what the data source answers: a history for each ticker asked
Markets(tickers) == [Range(tickers) -> HistorySet]

NoDataCrypto(ticker) ==
    CASE ticker = "BTC-USD" -> "No data found for crypto ticker: BTC-USD"
      [] ticker = "ETH-USD" -> "No data found for crypto ticker: ETH-USD"
      [] ticker = "AAPL" -> "No data found for crypto ticker: AAPL"
      [] OTHER -> "No data found for crypto ticker: MSFT"

NoDataStock(ticker) ==
    CASE ticker = "BTC-USD" -> "No data found for ticker: BTC-USD"
      [] ticker = "ETH-USD" -> "No data found for ticker: ETH-USD"
      [] ticker = "AAPL" -> "No data found for ticker: AAPL"
      [] OTHER -> "No data found for ticker: MSFT"

\* a fetcher's outcome: the frame or the error, and the tickers it asked the
\* data source for, in order
Fetched(r, asked) == [ret |-> r, asked |-> asked]

FrameRet(cols, data) == [kind |-> "frame", err |-> "", cols |-> cols, data |-> data]

FetchError(e) == [kind |-> "error", err |-> e, cols |-> <<>>, data |-> <<>>]

\* the loop shared by both fetchers: one request per ticker, in order, the
\* first empty history raises and no frame is built
RECURSIVE FetchLoop(_, _, _, _)
FetchLoop(tickers, market, i, crypto) ==
    IF i > Len(tickers) THEN Fetched(FrameRet(tickers, [t \in Range(tickers) |-> market[t]]), tickers)
    ELSE IF market[tickers[i]] = <<>> THEN Fetched(FetchError(IF crypto THEN NoDataCrypto(tickers[i]) ELSE NoDataStock(tickers[i])), SubSeq(tickers, 1, i))
    ELSE FetchLoop(tickers, market, i + 1, crypto)

download_stock_data(stocks, market) == FetchLoop(stocks, market, 1, FALSE)

\* a fetcher that blames the first ticker of the request for any empty history
download_crypto_data_first(crypto_tickers, market) ==
    LET f == FetchLoop(crypto_tickers, market, 1, TRUE)
    IN  IF f.ret.kind = "error" THEN Fetched(FetchError(NoDataCrypto(crypto_tickers[1])), f.asked) ELSE f

download_crypto_data(crypto_tickers, market) == FetchLoop(crypto_tickers, market, 1, TRUE)

\* DataFrame.dropna(): the row numbers where no column is NaN
CompleteRows(cols, data) == {i \in 1..Len(data[cols[1]]) : \A k \in 1..Len(cols) : ~IsNaN(data[cols[k]][i])}

\* markowitz.calculate_returns: log returns of every column, then the rows
\* holding a NaN in any column dropped
calculate_returns(frame) ==
    LET lr   == [t \in Range(frame.cols) |-> LogReturns(frame.data[t])]
        keep == CompleteRows(frame.cols, lr)
    IN  FrameRet(frame.cols, [t \in Range(frame.cols) |-> SelectSeq([i \in 1..Len(lr[t]) |-> IF i \in keep THEN lr[t][i] ELSE NaN], LAMBDA v : ~IsNaN(v))])

----------------------------------------------------------------------------
(* The market-data analyses and the table simulators *)

\* crypto markets trade every day of the year
NUM_TRADING_DAYS_CRYPTO == 365

\* stock markets trade on business days
NUM_TRADING_DAYS == 252

\* abs() of a float: NaN stays NaN
AbsFloat(a) == IF IsNaN(a) THEN NaN ELSE Abs(a)

\* 1e-6, below the resolution 1 / SCALE of the model's numbers
WeightTol == 0

DictRet(d) == [kind |-> "dict", err |-> "", t |-> <<>>, x |-> <<>>, v |-> 0, d |-> d]

\* an analysis's outcome: its result, the variates it drew and the tickers
\* it asked the data source for
Analysis(r, k, asked) == [ret |-> r, used |-> k, asked |-> asked]

\* the analysis reporting the Monte Carlo entries, as NaN, when none was run
crypto_var_analysis_always_reports(crypto_ticker, position, confidence_level, days, use_monte_carlo, mc_iterations, market, z, emptyRaises) ==
    LET crypto_data == download_crypto_data(<<crypto_ticker>>, market)
    IN  IF crypto_data.ret.kind = "error"
        THEN Analysis(ErrorRet(crypto_data.ret.err), 0, crypto_data.asked)
        ELSE LET prices == DropNa(crypto_data.ret.data[crypto_ticker])
                 returns == DropNa(LogReturns(prices))
                 mean_return == Mean(returns)
                 volatility == Std(returns)
                 annualized_vol == Mul(volatility, Sqrt(NUM_TRADING_DAYS_CRYPTO * SCALE))
                 analytical_var == value_at_risk_n(position, confidence_level, mean_return, volatility, days)
                 result == [analytical_var |-> AbsFloat(analytical_var),
                            mean_return |-> mean_return,
                            volatility |-> volatility,
                            annualized_volatility |-> annualized_vol,
                            confidence_level |-> confidence_level,
                            time_horizon_days |-> days]
                 mc_var_model == NewVar(position, mean_return, volatility, confidence_level, days, mc_iterations)
                 mc == simulation(mc_var_model, z, emptyRaises)
             IN  IF ~use_monte_carlo THEN Analysis(DictRet([monte_carlo_var |-> NaN, var_difference |-> NaN] @@ result), 0, crypto_data.asked)
                 ELSE IF mc.ret.kind = "error" THEN Analysis(mc.ret, mc.used, crypto_data.asked)
                 ELSE Analysis(DictRet([monte_carlo_var |-> mc.ret.v, var_difference |-> Sub(AbsFloat(analytical_var), mc.ret.v)] @@ result), mc.used, crypto_data.asked)

crypto_var_analysis(crypto_ticker, position, confidence_level, days, use_monte_carlo, mc_iterations, market, z, emptyRaises) ==
    LET crypto_data == download_crypto_data(<<crypto_ticker>>, market)
    IN  IF crypto_data.ret.kind = "error"
        THEN Analysis(ErrorRet(crypto_data.ret.err), 0, crypto_data.asked)
        ELSE LET prices == DropNa(crypto_data.ret.data[crypto_ticker])
                 returns == DropNa(LogReturns(prices))
                 mean_return == Mean(returns)
                 volatility == Std(returns)
                 annualized_vol == Mul(volatility, Sqrt(NUM_TRADING_DAYS_CRYPTO * SCALE))
                 analytical_var == value_at_risk_n(position, confidence_level, mean_return, volatility, days)
                 result == [analytical_var |-> AbsFloat(analytical_var),
                            mean_return |-> mean_return,
                            volatility |-> volatility,
                            annualized_volatility |-> annualized_vol,
                            confidence_level |-> confidence_level,
                            time_horizon_days |-> days]
                 mc_var_model == NewVar(position, mean_return, volatility, confidence_level, days, mc_iterations)
                 mc == simulation(mc_var_model, z, emptyRaises)
             IN  IF ~use_monte_carlo THEN Analysis(DictRet(result), 0, crypto_data.asked)
                 ELSE IF mc.ret.kind = "error" THEN Analysis(mc.ret, mc.used, crypto_data.asked)
                 ELSE Analysis(DictRet([monte_carlo_var |-> mc.ret.v, var_difference |-> Sub(AbsFloat(analytical_var), mc.ret.v)] @@ result), mc.used, crypto_data.asked)

\* np.dot(matrix, vector) and np.dot(vector, vector) over the columns cols
Dot(u, v) == SumSeq([i \in 1..Len(u) |-> Mul(u[i], v[i])])

\* weights' * (returns.cov() * days_per_year) * weights
QuadraticForm(returns, weights, days_per_year) ==
    LET k == Len(returns.cols)
        cov == [i \in 1..k |-> [j \in 1..k |-> Mul(Cov(returns.data[returns.cols[i]], returns.data[returns.cols[j]]), days_per_year * SCALE)]]
    IN  Dot(weights, [i \in 1..k |-> Dot(cov[i], weights)])

\* returns.corr(): NaN where a column does not vary
Corr(a, b) == Div(Cov(a, b), Mul(Std(a), Std(b)))

\* crypto_portfolio_var once its arguments have passed validation
PortfolioVarBody(crypto_tickers, weights, position, confidence_level, days, market) ==
    LET crypto_data == download_crypto_data(crypto_tickers, market)
    IN  IF crypto_data.ret.kind = "error"
        THEN Analysis(ErrorRet(crypto_data.ret.err), 0, crypto_data.asked)
        ELSE LET returns == calculate_returns(crypto_data.ret)
                 k == Len(crypto_tickers)
                 individual_positions == [i \in 1..k |-> Mul(weights[i], position)]
                 var(i) == value_at_risk_n(individual_positions[i], confidence_level, Mean(returns.data[crypto_tickers[i]]), Std(returns.data[crypto_tickers[i]]), days)
                 individual_vars == [t \in Range(crypto_tickers) |-> AbsFloat(var(CHOOSE i \in 1..k : crypto_tickers[i] = t))]
                 portfolio_mean == Mul(SumSeq([i \in 1..k |-> Mul(Mean(returns.data[crypto_tickers[i]]), weights[i])]), NUM_TRADING_DAYS_CRYPTO * SCALE)
                 portfolio_volatility == Sqrt(QuadraticForm(returns, weights, NUM_TRADING_DAYS_CRYPTO))
                 portfolio_mean_daily == Div(portfolio_mean, NUM_TRADING_DAYS_CRYPTO * SCALE)
                 portfolio_vol_daily == Div(portfolio_volatility, Sqrt(NUM_TRADING_DAYS_CRYPTO * SCALE))
                 portfolio_var == value_at_risk_n(position, confidence_level, portfolio_mean_daily, portfolio_vol_daily, days)
                 correlation_matrix == [a \in Range(crypto_tickers) |-> [b \in Range(crypto_tickers) |-> Corr(returns.data[a], returns.data[b])]]
             IN  Analysis(DictRet([portfolio_var |-> AbsFloat(portfolio_var),
                                   individual_vars |-> individual_vars,
                                   portfolio_volatility |-> portfolio_volatility,
                                   portfolio_mean_return |-> portfolio_mean,
                                   correlation_matrix |-> correlation_matrix,
                                   confidence_level |-> confidence_level,
                                   time_horizon_days |-> days]), 0, crypto_data.asked)

\* the validation with the two checks in the other order
crypto_portfolio_var_sum_first(crypto_tickers, weights, position, confidence_level, days, market) ==
    IF Abs(Sub(SumSeq(weights), SCALE)) > WeightTol
    THEN Analysis(ErrorRet("Weights must sum to 1.0"), 0, <<>>)
    ELSE IF Len(crypto_tickers) # Len(weights)
    THEN Analysis(ErrorRet("Number of tickers must match number of weights"), 0, <<>>)
    ELSE PortfolioVarBody(crypto_tickers, weights, position, confidence_level, days, market)

crypto_portfolio_var(crypto_tickers, weights, position, confidence_level, days, market) ==
    IF Len(crypto_tickers) # Len(weights)
    THEN Analysis(ErrorRet("Number of tickers must match number of weights"), 0, <<>>)
    ELSE IF Abs(Sub(SumSeq(weights), SCALE)) > WeightTol
    THEN Analysis(ErrorRet("Weights must sum to 1.0"), 0, <<>>)
    ELSE PortfolioVarBody(crypto_tickers, weights, position, confidence_level, days, market)

\* Series.min() and Series.max(): skip NaN; NaN for no observation
RECURSIVE MinSeq(_)
MinSeq(s) == IF Len(s) = 1 THEN s[1] ELSE LET m == MinSeq(Tail(s)) IN IF s[1] <= m THEN s[1] ELSE m

SeriesMin(s) == IF DropNa(s) = <<>> THEN NaN ELSE MinSeq(DropNa(s))

SeriesMax(s) == IF DropNa(s) = <<>> THEN NaN ELSE -MinSeq([i \in 1..Len(DropNa(s)) |-> -DropNa(s)[i]])

crypto_price_simulation(crypto_ticker, T, num_simulations, market, z) ==
    LET historical_data == download_crypto_data(<<crypto_ticker>>, market)
    IN  IF historical_data.ret.kind = "error"
        THEN Analysis(ErrorRet(historical_data.ret.err), 0, historical_data.asked)
        ELSE LET prices == DropNa(historical_data.ret.data[crypto_ticker])
                 returns == DropNa(LogReturns(prices))
                 mu == Mul(Mean(returns), NUM_TRADING_DAYS_CRYPTO * SCALE)
                 sigma == Mul(Std(returns), Sqrt(NUM_TRADING_DAYS_CRYPTO * SCALE))
                 s0 == prices[Len(prices)]
                 N == (T * NUM_TRADING_DAYS_CRYPTO) \div SCALE
                 simulation_results == [j \in 1..num_simulations |-> simulate_gbm(s0, T, N, mu, sigma, SubSeq(z, (j - 1) * N + 1, j * N)).ret]
                 final_prices == [j \in 1..num_simulations |-> simulation_results[j].x[N]]
                 stats == [mean_final_price |-> Mean(final_prices),
                           std_final_price |-> Std(final_prices),
                           min_price |-> SeriesMin(final_prices),
                           max_price |-> SeriesMax(final_prices),
                           historical_mu |-> mu,
                           historical_sigma |-> sigma,
                           current_price |-> s0]
             IN  IF num_simulations = 0 THEN Analysis(ErrorRet("IndexError"), 0, historical_data.asked)
                 ELSE IF N = 0 THEN Analysis(ErrorRet("ZeroDivisionError"), 0, historical_data.asked)
                 ELSE Analysis(DictRet([simulation_df |-> [j \in 1..num_simulations |-> simulation_results[j].x], stats |-> stats]), num_simulations * GbmDraws(N), historical_data.asked)

\* one row of compare_crypto_stocks: the Sharpe ratio is 0 unless the
\* volatility is a number above 0
ComparisonRow(ticker, returns, risk_free_rate, days_per_year, asset_type) ==
    LET avg_return == Mul(Mean(returns), days_per_year * SCALE)
        volatility == Mul(Std(returns), Sqrt(days_per_year * SCALE))
        sharpe == IF ~IsNaN(volatility) /\ volatility > 0 THEN Div(Sub(avg_return, risk_free_rate), volatility) ELSE 0
    IN  [ticker |-> ticker, average_return |-> avg_return, volatility |-> volatility, sharpe_ratio |-> sharpe, asset_type |-> asset_type]

compare_crypto_stocks(crypto_tickers, stock_tickers, risk_free_rate, market) ==
    LET crypto_data == download_crypto_data(crypto_tickers, market)
        stock_data == download_stock_data(stock_tickers, market)
    IN  IF crypto_data.ret.kind = "error"
        THEN Analysis(ErrorRet(crypto_data.ret.err), 0, crypto_data.asked)
        ELSE IF stock_data.ret.kind = "error"
        THEN Analysis(ErrorRet(stock_data.ret.err), 0, crypto_data.asked \o stock_data.asked)
        ELSE LET crypto_returns == calculate_returns(crypto_data.ret)
                 stock_returns == calculate_returns(stock_data.ret)
                 comparison_metrics == [i \in 1..Len(crypto_tickers) |-> ComparisonRow(crypto_tickers[i], crypto_returns.data[crypto_tickers[i]], risk_free_rate, NUM_TRADING_DAYS_CRYPTO, "Crypto")]
                                       \o [i \in 1..Len(stock_tickers) |-> ComparisonRow(stock_tickers[i], stock_returns.data[stock_tickers[i]], risk_free_rate, NUM_TRADING_DAYS_CRYPTO, "Stock")]
             IN  Analysis(DictRet([rows |-> comparison_metrics]), 0, crypto_data.asked \o stock_data.asked)

\* markowitz.statistics: the Sharpe ratio is a bare float64 division
statistics(weights, returns) ==
    LET portfolio_returns == Mul(SumSeq([i \in 1..Len(returns.cols) |-> Mul(Mean(returns.data[returns.cols[i]]), weights[i])]), NUM_TRADING_DAYS * SCALE)
        portfolio_volatility == Sqrt(QuadraticForm(returns, weights, NUM_TRADING_DAYS))
        sharpe_ratio == Div(portfolio_returns, portfolio_volatility)
    IN  DictRet([portfolio_returns |-> portfolio_returns, portfolio_volatility |-> portfolio_volatility, sharpe_ratio |-> sharpe_ratio])

\* one simulated price list: S0 followed by N multiplicative steps
RECURSIVE PriceList(_, _, _, _)
PriceList(prices, mu, sigma, z) ==
    IF z = <<>> THEN prices
    ELSE PriceList(Append(prices, Mul(prices[Len(prices)], Exp(Add(Sub(mu, Mul(SCALE \div 2, Mul(sigma, sigma))), Mul(sigma, Head(z)))))), mu, sigma, Tail(z))

stock_price_monte_carlo(S0, mu, sigma, N, num_simulations, z) ==
    LET results == [j \in 1..num_simulations |-> PriceList(<<S0>>, mu, sigma, TrialDraws(z, j, N))]
        rows == IF num_simulations = 0 THEN 0 ELSE N + 1
        mean == [i \in 1..rows |-> Mean([j \in 1..num_simulations |-> results[j][i]])]
    IN  Outcome(DictRet([paths |-> results, mean |-> mean]), num_simulations * N)

----------------------------------------------------------------------------
(* Actions: one call of a market-data analysis or a table simulator *)

CryptoLists == {<<"BTC-USD">>, <<"ETH-USD", "BTC-USD">>}

StockLists == {<<"AAPL">>, <<"AAPL", "MSFT">>}

WeightLists == {<<SCALE>>, <<SCALE \div 2>>, <<600, 400>>, <<600, 300>>, <<0, SCALE>>}

CryptoPositionSet == {1000 * SCALE}

ConfidenceSet == {950}

HoldingDaysSet == {1}

\* Monte Carlo switched off (mc_iterations is then unused), or on with a
\* trial count
McChoices == {<<FALSE, MaxIter>>} \cup {<<TRUE, k>> : k \in IterSet}

\* horizons in years: int(T * 365) is 0, 1 and 2 steps
SimHorizonSet == {2, 3, 6}

CallDownloadCrypto ==
    /\ Idle
    /\ \E crypto_tickers \in CryptoLists :
         \E market \in Markets(crypto_tickers) :
           LET o == download_crypto_data(crypto_tickers, market)
           IN  /\ call' = [at |-> rng, op |-> "download_crypto_data",
                           crypto_tickers |-> crypto_tickers, market |-> market,
                           asked |-> o.asked]
               /\ ret' = o.ret
    /\ UNCHANGED rng
    /\ Frame

CallDownloadStock ==
    /\ Idle
    /\ \E stocks \in StockLists :
         \E market \in Markets(stocks) :
           LET o == download_stock_data(stocks, market)
           IN  /\ call' = [at |-> rng, op |-> "download_stock_data",
                           stocks |-> stocks, market |-> market, asked |-> o.asked]
               /\ ret' = o.ret
    /\ UNCHANGED rng
    /\ Frame

CallVarAnalysis ==
    /\ Idle
    /\ \E crypto_ticker \in CryptoTickers, position \in CryptoPositionSet,
          confidence_level \in ConfidenceSet, days \in HoldingDaysSet,
          mc \in McChoices :
         /\ rng + (IF mc[1] THEN mc[2] ELSE 0) <= MaxRng
         /\ \E market \in Markets(<<crypto_ticker>>),
               z \in Draws(IF mc[1] THEN mc[2] ELSE 0),
               emptyRaises \in (IF mc[1] /\ mc[2] = 0 THEN BOOLEAN ELSE {TRUE}) :
              LET use_monte_carlo == mc[1]
                  mc_iterations == mc[2]
                  o == crypto_var_analysis(crypto_ticker, position, confidence_level, days, use_monte_carlo, mc_iterations, market, z, emptyRaises)
              IN  /\ call' = [at |-> rng, op |-> "crypto_var_analysis",
                              crypto_ticker |-> crypto_ticker, position |-> position,
                              confidence_level |-> confidence_level, days |-> days,
                              use_monte_carlo |-> use_monte_carlo,
                              mc_iterations |-> mc_iterations, market |-> market,
                              z |-> z, asked |-> o.asked]
                  /\ ret' = o.ret
                  /\ rng' = rng + o.used
    /\ Frame

CallPortfolioVar ==
    /\ Idle
    /\ \E crypto_tickers \in CryptoLists, weights \in WeightLists,
          position \in CryptoPositionSet, confidence_level \in ConfidenceSet,
          days \in HoldingDaysSet :
         \E market \in Markets(crypto_tickers) :
           LET o == crypto_portfolio_var(crypto_tickers, weights, position, confidence_level, days, market)
           IN  /\ call' = [at |-> rng, op |-> "crypto_portfolio_var",
                           crypto_tickers |-> crypto_tickers, weights |-> weights,
                           position |-> position,
                           confidence_level |-> confidence_level, days |-> days,
                           market |-> market, asked |-> o.asked]
               /\ ret' = o.ret
               /\ rng' = rng + o.used
    /\ Frame

CallPriceSimulation ==
    /\ Idle
    /\ \E crypto_ticker \in CryptoTickers, T \in SimHorizonSet,
          num_simulations \in IterSet :
         LET N == (T * NUM_TRADING_DAYS_CRYPTO) \div SCALE
         IN  /\ rng + num_simulations * N <= MaxRng
             /\ \E market \in Markets(<<crypto_ticker>>),
                   z \in Draws(num_simulations * N) :
                  LET o == crypto_price_simulation(crypto_ticker, T, num_simulations, market, z)
                  IN  /\ call' = [at |-> rng, op |-> "crypto_price_simulation",
                                  crypto_ticker |-> crypto_ticker, T |-> T,
                                  num_simulations |-> num_simulations,
                                  market |-> market, z |-> z, asked |-> o.asked]
                      /\ ret' = o.ret
                      /\ rng' = rng + o.used
    /\ Frame

CallCompare ==
    /\ Idle
    /\ \E crypto_tickers \in CryptoLists, stock_tickers \in {<<"AAPL">>},
          risk_free_rate \in RfSet :
         \E market \in Markets(crypto_tickers \o stock_tickers) :
           LET o == compare_crypto_stocks(crypto_tickers, stock_tickers, risk_free_rate, market)
           IN  /\ call' = [at |-> rng, op |-> "compare_crypto_stocks",
                           crypto_tickers |-> crypto_tickers,
                           stock_tickers |-> stock_tickers,
                           risk_free_rate |-> risk_free_rate,
                           market |-> market, asked |-> o.asked]
               /\ ret' = o.ret
               /\ rng' = rng + o.used
    /\ Frame

\* the returns frames statistics() is given: the log returns of fetched
\* stock prices
ReturnFrames == {calculate_returns(download_stock_data(stocks, market).ret) : <<stocks, market>> \in UNION {{<<s, m>> : m \in [Range(s) -> HistorySet \ {<<>>}]} : s \in StockLists}}

CallStatistics ==
    /\ Idle
    /\ \E returns \in ReturnFrames, weights \in WeightLists :
         /\ Len(weights) = Len(returns.cols)
         /\ call' = [at |-> rng, op |-> "statistics", weights |-> weights,
                     returns |-> returns]
         /\ ret' = statistics(weights, returns)
    /\ UNCHANGED rng
    /\ Frame

CallStockMonteCarlo ==
    /\ Idle
    /\ \E S0 \in {50 * SCALE}, mu \in MuSet, sigma \in VolSet, N \in NSet,
          num_simulations \in IterSet :
         /\ rng + num_simulations * N <= MaxRng
         /\ \E z \in Draws(num_simulations * N) :
              LET o == stock_price_monte_carlo(S0, mu, sigma, N, num_simulations, z)
              IN  /\ call' = [at |-> rng, op |-> "stock_price_monte_carlo",
                              S0 |-> S0, mu |-> mu, sigma |-> sigma, N |-> N,
                              num_simulations |-> num_simulations, z |-> z]
                  /\ ret' = o.ret
                  /\ rng' = rng + o.used
    /\ Frame

NextCrypto ==
    \/ CallDownloadCrypto \/ CallDownloadStock
    \/ CallVarAnalysis \/ CallPortfolioVar \/ CallPriceSimulation \/ CallCompare
    \/ CallStatistics \/ CallStockMonteCarlo \/ CallVarN \/ Consume

SpecCrypto == InitPath /\ [][NextCrypto]_vars

\* a script that runs the two nested-loop estimators, in any order
NextTrials == CallBond \/ CallStockMonteCarlo \/ Consume

SpecTrials == InitPath /\ [][NextTrials]_vars

----------------------------------------------------------------------------
(* The CAPM object: initialize() and the methods that need its data *)

RISK_FREE_RATE == 50

MONTHS_IN_YEAR == 12

\* the most initialize() calls made on one object
MaxInit == 2

\* self.data before initialize(): None
NoData == [is_none |-> TRUE, s_adjclose |-> <<>>, m_adjclose |-> <<>>, s_returns |-> <<>>, m_returns |-> <<>>]

\* CAPM.__init__: exactly two tickers, the stock and the market index; the
\* fields completed and attempts record the initialize() calls made so far
NewCapm(stocks, risk_free_rate) == [made |-> TRUE, stocks |-> stocks, risk_free_rate |-> risk_free_rate, data |-> NoData, completed |-> FALSE, attempts |-> 0]

CapmObjects == {NewCapm(stocks, RISK_FREE_RATE) : stocks \in {<<"AAPL", "MSFT">>, <<"MSFT", "AAPL">>}}

\* the daily closes yf.download holds for one ticker, month by month
DailySet == {<<<<10 * SCALE, 10500>>, <<11 * SCALE>>, <<9900>>>>, <<<<10 * SCALE>>, <<9500, 9 * SCALE>>, <<10800>>>>, <<<<20 * SCALE>>, <<21 * SCALE>>, <<22 * SCALE, 23100>>>>}

\* resample("M").last(): the last close of every month
ResampleLast(col) == [i \in 1..Len(col) |-> col[i][Len(col[i])]]

DoneRet == [kind |-> "done", err |-> "", t |-> <<>>, x |-> <<>>, v |-> 0]

\* a method's outcome: the object afterwards and what the call returned
Method(self, r) == [self |-> self, ret |-> r]

\* initialize() that stores an empty frame before downloading
initialize_store_first(self, download, resampleRaises) ==
    LET started == [self EXCEPT !.attempts = @ + 1, !.data = [NoData EXCEPT !.is_none = FALSE]]
    IN  IF download = <<>> THEN Method(started, ErrorRet("download failed"))
        ELSE IF resampleRaises THEN Method(started, ErrorRet("ValueError: Invalid frequency: M"))
        ELSE LET s == ResampleLast(download[self.stocks[1]])
                 m == ResampleLast(download[self.stocks[2]])
             IN  Method([started EXCEPT !.completed = TRUE, !.data = [is_none |-> FALSE, s_adjclose |-> Tail(s), m_adjclose |-> Tail(m), s_returns |-> Tail(LogReturns(s)), m_returns |-> Tail(LogReturns(m))]], DoneRet)

\* CAPM.initialize: download is <<>> when download_data() raises, else the
\* closes per ticker; resample("M") raises on a pandas without that alias
initialize(self, download, resampleRaises) ==
    LET started == [self EXCEPT !.attempts = @ + 1]
    IN  IF download = <<>> THEN Method(started, ErrorRet("download failed"))
        ELSE IF resampleRaises THEN Method(started, ErrorRet("ValueError: Invalid frequency: M"))
        ELSE LET s == ResampleLast(download[self.stocks[1]])
                 m == ResampleLast(download[self.stocks[2]])
             IN  Method([started EXCEPT !.completed = TRUE, !.data = [is_none |-> FALSE, s_adjclose |-> Tail(s), m_adjclose |-> Tail(m), s_returns |-> Tail(LogReturns(s)), m_returns |-> Tail(LogReturns(m))]], DoneRet)

calculate_beta(self) ==
    IF self.data.is_none THEN Method(self, ErrorRet("Must call initialize() before calculate_beta()"))
    ELSE Method(self, ValueRet(Div(Cov(self.data.s_returns, self.data.m_returns), Cov(self.data.m_returns, self.data.m_returns))))

plot_regression(self, alpha, beta) ==
    IF self.data.is_none THEN Method(self, ErrorRet("Must call initialize() before plot_regression()"))
    ELSE Method(self, DoneRet)

\* np.polyfit of degree 1 is the least-squares line: slope cov / var and
\* intercept mean(y) - slope * mean(x)
regression(self, show_plot) ==
    IF self.data.is_none THEN Method(self, ErrorRet("Must call initialize() before regression()"))
    ELSE LET beta == Div(Cov(self.data.m_returns, self.data.s_returns), Cov(self.data.m_returns, self.data.m_returns))
             alpha == Sub(Mean(self.data.s_returns), Mul(beta, Mean(self.data.m_returns)))
             expected_return == Add(self.risk_free_rate, Mul(beta, Sub(Mul(Mean(self.data.m_returns), MONTHS_IN_YEAR * SCALE), self.risk_free_rate)))
             plotted == IF show_plot THEN plot_regression(self, alpha, beta).ret ELSE DoneRet
         IN  IF plotted.kind = "error" THEN Method(self, plotted)
             ELSE Method(self, DictRet([beta |-> beta, alpha |-> alpha, expected_return |-> expected_return]))

----------------------------------------------------------------------------
(* Actions: one method call on the CAPM object *)

CapmFrame == UNCHANGED <<rng, opt, vmc>>

CapmInitialize ==
    /\ Idle /\ capm.made /\ capm.attempts < MaxInit
    /\ \E download \in {<<>>} \cup [Range(capm.stocks) -> DailySet], resampleRaises \in BOOLEAN :
         LET o == initialize(capm, download, resampleRaises)
         IN  /\ call' = [at |-> rng, op |-> "initialize", download |-> download]
             /\ ret' = o.ret
             /\ capm' = o.self
    /\ CapmFrame

CapmBeta ==
    /\ Idle /\ capm.made
    /\ LET o == calculate_beta(capm)
       IN  /\ call' = [at |-> rng, op |-> "calculate_beta"]
           /\ ret' = o.ret
           /\ capm' = o.self
    /\ CapmFrame

CapmRegression ==
    /\ Idle /\ capm.made
    /\ \E show_plot \in BOOLEAN :
         LET o == regression(capm, show_plot)
         IN  /\ call' = [at |-> rng, op |-> "regression", show_plot |-> show_plot]
             /\ ret' = o.ret
             /\ capm' = o.self
    /\ CapmFrame

CapmPlot ==
    /\ Idle /\ capm.made
    /\ \E alpha \in {0, 10}, beta \in {0, SCALE} :
         LET o == plot_regression(capm, alpha, beta)
         IN  /\ call' = [at |-> rng, op |-> "plot_regression", alpha |-> alpha, beta |-> beta]
             /\ ret' = o.ret
             /\ capm' = o.self
    /\ CapmFrame

InitCapm ==
    /\ rng = 0
    /\ call = NoCall
    /\ ret = NoRet
    /\ opt = NoObj
    /\ vmc = NoObj
    /\ capm \in CapmObjects

NextCapm == CapmInitialize \/ CapmBeta \/ CapmRegression \/ CapmPlot \/ Consume

SpecCapm == InitCapm /\ [][NextCapm]_vars

----------------------------------------------------------------------------
(* Claims about the path generators, checked under SpecPath *)

Last(s) == s[Len(s)]

IsGen(ops) == call.op \in ops /\ ret.kind # "none"

\* C1: for valid (T, N), N >= 1 (and sigma >= 0), wiener_process, simulate_gbm and
\* vasicek_model each return N+1 path points and a time array of the same
\* length running from 0 to T (for wiener_process, T = n * dt).
C1_PathHasNPlus1Points ==
    /\ (IsGen({"simulate_gbm", "vasicek_model"}) /\ call.T > 0 /\ call.N >= 1
           /\ call.sigma >= 0)
         => /\ ret.kind = "path"
            /\ Len(ret.x) = call.N + 1
            /\ Len(ret.t) = Len(ret.x)
            /\ ret.t[1] = 0
            /\ Last(ret.t) = call.T
    /\ (IsGen({"wiener_process"}) /\ call.dt > 0 /\ call.n >= 1)
         => /\ ret.kind = "path"
            /\ Len(ret.x) = call.n + 1
            /\ Len(ret.t) = Len(ret.x)
            /\ ret.t[1] = 0
            /\ Last(ret.t) = call.n * call.dt

\* C2: for T > 0, N >= 1, sigma >= 0 and any draws, the first value of the
\* price path returned by simulate_gbm equals s0.
C2_GbmStartsAtS0 ==
    (IsGen({"simulate_gbm"}) /\ call.T > 0 /\ call.N >= 1 /\ call.sigma >= 0)
        => (ret.kind = "path" /\ ret.x[1] = call.s0)

\* C3: for s0 > 0, sigma >= 0 (and a valid horizon T > 0, N >= 1) and any
\* draws, every value of the price path returned by simulate_gbm is > 0.
C3_GbmPositive ==
    (IsGen({"simulate_gbm"}) /\ call.s0 > 0 /\ call.sigma >= 0
        /\ call.T > 0 /\ call.N >= 1)
        => (ret.kind = "path" /\ \A i \in 1..Len(ret.x) : ret.x[i] > 0)

\* a GBM call under a positive volatility whose path rose above s0 at one
\* point and fell below it at another
C3_Witness ==
    /\ IsGen({"simulate_gbm"}) /\ call.s0 > 0 /\ call.sigma > 0
    /\ call.T > 0 /\ call.N >= 2 /\ ret.kind = "path"
    /\ \E i, j \in 1..Len(ret.x) : ret.x[i] < call.s0 /\ ret.x[j] > call.s0

\* C4: a path generator called with sigma < 0 or a horizon <= 0 reports an
\* error before any variate is drawn and never returns a path.
C4_FailFastOnBadConfig ==
    /\ (IsGen({"simulate_gbm", "vasicek_model"}) /\ (call.sigma < 0 \/ call.T <= 0))
         => (ret.kind = "error" /\ rng = call.at)
    /\ (IsGen({"generate_ornstein_uhlenbeck"}) /\ (call.sigma < 0 \/ call.dt <= 0))
         => (ret.kind = "error" /\ rng = call.at)
    /\ (IsGen({"wiener_process"}) /\ call.dt <= 0)
         => (ret.kind = "error" /\ rng = call.at)

\* C22: the packaged wiener_process and the wiener_process of the script
\* 06_wienerProcess.py draw their increments with mean 0 and deviation
\* sqrt(dt), so that both produce the same path from the same standard-normal
\* draws.
C22_WienerImplementationsAgree ==
    /\ IsGen({"wiener_process"})
         => ret = wiener_process_script(call.dt, call.x0, call.n, call.z).ret
    /\ IsGen({"06_wienerProcess.wiener_process"})
         => ret = wiener_process(call.dt, call.x0, call.n, call.z).ret

\* C23: the path wiener_process(dt, x0, n) returns starts at x0, w[0] = x0,
\* and each later value is the previous one plus that step's increment
\* sqrt(dt)*z, for every x0 (here for dt > 0, where sqrt(dt) is defined, and
\* paths of at least one step).
C23_WienerStartsAtX0 ==
    (IsGen({"wiener_process"}) /\ call.dt > 0 /\ call.n >= 1) =>
        /\ ret.x[1] = call.x0
        /\ \A i \in 1..call.n : ret.x[i + 1] = Add(ret.x[i], Mul(Sqrt(call.dt), call.z[i]))

\* C25: generate_ornstein_uhlenbeck(dt, theta, mu, sigma, n) returns exactly
\* n values; the first is 0 and each later one is
\* x[t] = x[t-1] + theta*(mu - x[t-1])*dt + sigma*sqrt(dt)*z_t with one fresh
\* draw per step, n - 1 draws in all, and no clamping (here for dt > 0 and
\* n >= 1).
C25_OuRecurrence ==
    (IsGen({"generate_ornstein_uhlenbeck"}) /\ call.dt > 0 /\ call.n >= 1) =>
        /\ ret.kind = "path" /\ Len(ret.x) = call.n
        /\ ret.x[1] = 0
        /\ rng = call.at + call.n - 1 /\ Len(call.z) = call.n - 1
        /\ \A t \in 2..call.n :
             ret.x[t] = Add(Add(ret.x[t - 1], Mul(Mul(call.theta, Sub(call.mu, ret.x[t - 1])), call.dt)),
                            Mul(Mul(call.sigma, Sqrt(call.dt)), call.z[t - 1]))

\* three values from two draws, the noise carrying the process below zero
\* although it reverts to a positive mean
C25_Witness ==
    /\ IsGen({"generate_ornstein_uhlenbeck"}) /\ call.dt > 0 /\ call.n = 3
    /\ call.theta > 0 /\ call.mu > 0 /\ call.sigma > 0
    /\ rng = call.at + 2
    /\ ret.x[2] < 0 /\ ret.x[3] < ret.x[2]

\* C29: in simulate_gbm the time grid of the drift term is consistent with the
\* step that scales the Wiener increments: with dt = T/N consecutive time
\* points are dt apart and t_i = i*dt, so that the k-th value combines the
\* drift over t_k with the increments accumulated up to that same time (here
\* for T > 0, N >= 2, sigma >= 0, up to one unit of rounding).
C29_GbmGridMatchesStep ==
    (IsGen({"simulate_gbm"}) /\ call.T > 0 /\ call.N >= 2 /\ call.sigma >= 0 /\ ret.kind = "path") =>
        /\ \A i \in 1..Len(ret.t) - 1 :
             Abs(Sub(Sub(ret.t[i + 1], ret.t[i]), DivInt(call.T, call.N))) <= 1
        /\ \A i \in 1..Len(ret.t) :
             Abs(Sub(ret.t[i], (i - 1) * DivInt(call.T, call.N))) <= i

----------------------------------------------------------------------------
(* Claims about the estimators, checked under SpecMC *)

IsCall(ops) == call.op \in ops /\ ret.kind # "none"

\* C5: an estimator called with a trial or step count of 0 reports an error
\* before any simulation work and never returns a number or NaN.
C5_RejectsEmptyRun ==
    /\ (IsCall({"call_option_price", "put_option_price"}) /\ opt.iterations = 0)
         => (ret.kind = "error" /\ rng = call.at)
    /\ (IsCall({"simulation"}) /\ vmc.iterations = 0)
         => (ret.kind = "error" /\ rng = call.at)
    /\ (IsCall({"monte_carlo_bond_pricing"})
           /\ (call.num_simulations = 0 \/ call.num_points = 0))
         => (ret.kind = "error" /\ rng = call.at)

\* C6: for S0 > 0, T > 0, sigma >= 0, iterations >= 1 and any draws, the
\* Monte Carlo call price and put price are both >= 0.
C6_OptionPriceNonNegative ==
    (IsCall({"call_option_price", "put_option_price"}) /\ opt.iterations >= 1)
        => (ret.kind = "value" /\ ~IsNaN(ret.v) /\ ret.v >= 0)

\* a call price averaged over trials of which one ended below the strike
\* and another above it
C6_Witness ==
    /\ IsCall({"call_option_price"}) /\ opt.iterations >= 2 /\ ret.v > 0
    /\ \E i, j \in 1..opt.iterations :
         /\ Terminal(opt.S0, opt.rf, opt.sigma, opt.T, call.z[i]) < opt.E
         /\ Terminal(opt.S0, opt.rf, opt.sigma, opt.T, call.z[j]) > opt.E

\* C7: ValueAtRiskMonteCarlo.simulation() returns a loss >= 0 for every
\* valid input (S > 0, sigma >= 0, 0 < c < 1, n >= 1, iterations >= 1, any mu).
C7_McVarNonNegative ==
    (IsCall({"simulation"}) /\ vmc.iterations >= 1 /\ vmc.c > 0 /\ vmc.c < SCALE)
        => (ret.kind = "value" /\ ~IsNaN(ret.v) /\ ret.v >= 0)

\* C8: value_at_risk_n returns a negative value for position > 0, c > 0.5,
\* mu >= 0, sigma > 0 and n >= 1.
C8_AnalyticVarNegative ==
    (IsCall({"value_at_risk_n"}) /\ call.position > 0 /\ call.c > SCALE \div 2
        /\ call.mu >= 0 /\ call.sigma > 0 /\ call.n >= 1)
        => ret.v < 0

\* what fixed-point rounding of exp can move a value of size S by
RoundingSlack(S) == 2 * (S \div SCALE)

\* C9: the Monte Carlo VaR and the analytical VaR agree in the limit of many
\* trials, up to sign, for every mu.  With sigma = 0 every trial yields the
\* same terminal value, so the Monte Carlo result is already its limit for
\* any iterations >= 1, and the claim says it matches value_at_risk_n there.
C9_McVarMatchesAnalytic ==
    (IsCall({"simulation"}) /\ vmc.iterations >= 1 /\ vmc.sigma = 0
        /\ vmc.c > 0 /\ vmc.c < SCALE /\ ret.kind = "value")
        => Abs(Abs(ret.v)
               - Abs(value_at_risk_n(vmc.S, vmc.c, vmc.mu, vmc.sigma, vmc.n)))
             <= RoundingSlack(vmc.S)

\* C11: monte_carlo_bond_pricing returns a strictly positive price for x > 0,
\* T > 0, num_simulations >= 1, num_points >= 1 and any draws, whatever r0,
\* kappa, theta and sigma are.
C11_BondPricePositive ==
    (IsCall({"monte_carlo_bond_pricing"}) /\ call.x > 0 /\ call.T > 0
        /\ call.num_simulations >= 1 /\ call.num_points >= 1)
        => (ret.kind = "value" /\ ~IsNaN(ret.v) /\ ret.v > 0)

\* the rate paths of a bond call, recomputed from the call's arguments
BondPaths == BondResults(call.r0, call.kappa, call.theta, call.sigma, DivInt(call.T, call.num_points), call.num_simulations, call.num_points, call.z)

\* a positive price although some trial's integrated rate exceeds 1, where
\* a first-order discount factor is already negative
C11_Witness ==
    /\ IsCall({"monte_carlo_bond_pricing"}) /\ call.num_points >= 2
    /\ call.sigma > 0 /\ ret.kind = "value" /\ ret.v > 0
    /\ \E j \in 1..call.num_simulations :
         Mul(SumSeq(BondPaths[j]), DivInt(call.T, call.num_points)) > SCALE

\* the price the same bond call returns when only r0 is replaced
PriceAt(r0) == monte_carlo_bond_pricing(call.x, r0, call.kappa, call.theta, call.sigma, call.T, call.num_simulations, call.num_points, call.z).ret.v

\* C12: with x > 0, kappa >= 0 and everything else including the draws
\* fixed, a higher r0 gives a strictly lower bond price, for every valid
\* choice of the fixed parameters.
C12_PriceDecreasesInR0 ==
    (IsCall({"monte_carlo_bond_pricing"}) /\ call.x > 0 /\ call.kappa >= 0
        /\ call.sigma >= 0 /\ call.num_simulations >= 1 /\ call.num_points >= 1)
        => \A r0 \in RateSet : r0 > call.r0 => PriceAt(r0) < ret.v

\* C12 amended: the same, for step sizes with kappa * T / num_points < 2.
C12_PriceDecreasesInR0_Stable ==
    (IsCall({"monte_carlo_bond_pricing"}) /\ call.x > 0 /\ call.kappa >= 0
        /\ call.sigma >= 0 /\ call.num_simulations >= 1 /\ call.num_points >= 1
        /\ Mul(call.kappa, call.T) < 2 * SCALE * call.num_points)
        => \A r0 \in RateSet : r0 > call.r0 => PriceAt(r0) < ret.v

\* a mean-reverting bond call from the lowest r0, several trials of several
\* noisy steps, priced above the same call from a higher r0
C12_Witness ==
    /\ IsCall({"monte_carlo_bond_pricing"}) /\ call.kappa > 0 /\ call.sigma > 0
    /\ call.num_simulations >= 2 /\ call.num_points >= 2
    /\ Mul(call.kappa, call.T) < 2 * SCALE * call.num_points
    /\ \E r0 \in RateSet : r0 > call.r0 /\ PriceAt(r0) < ret.v

\* C17: a confidence level outside (0, 1) given to ValueAtRiskMonteCarlo is
\* reported as an error, raised before any random variate is drawn (here for
\* objects with at least one trial, so that an empty run plays no part).
C17_BadConfidenceFailsFast ==
    (IsCall({"simulation"}) /\ vmc.iterations >= 1 /\ (vmc.c <= 0 \/ vmc.c >= SCALE))
        => (ret.kind = "error" /\ rng = call.at)

\* S_T_k = S0 * exp((rf - sigma^2 / 2) * T + sigma * sqrt(T) * Z_k) for the
\* k-th draw of the call in progress
TrialPrice(k) == Mul(opt.S0, Exp(Add(Mul(Sub(opt.rf, Mul(Mul(opt.sigma, opt.sigma), SCALE \div 2)), opt.T), Mul(Mul(Sqrt(opt.T), opt.sigma), call.z[k]))))

\* exp(-rf * T) times the arithmetic mean of the trials' payoffs
DiscountedMean(payoffs) == Mul(Exp(Neg(Mul(opt.rf, opt.T))), DivFloat(SumSeq(payoffs), opt.iterations))

CallPayoffs == [k \in 1..opt.iterations |-> IF TrialPrice(k) > opt.E THEN TrialPrice(k) - opt.E ELSE 0]

PutPayoffs == [k \in 1..opt.iterations |-> IF opt.E > TrialPrice(k) THEN opt.E - TrialPrice(k) ELSE 0]

\* C20: call_option_price() equals exp(-rf * T) times the arithmetic mean
\* over the iterations trials of max(0, S_T_k - E), put_option_price() the
\* same with max(0, E - S_T_k), and each trial contributes exactly one
\* payoff from one draw.
C20_PriceIsDiscountedMeanPayoff ==
    /\ (IsCall({"call_option_price"}) /\ opt.iterations >= 1)
         => (ret.kind = "value" /\ ret.v = DiscountedMean(CallPayoffs)
               /\ Len(call.z) = opt.iterations /\ rng = call.at + opt.iterations)
    /\ (IsCall({"put_option_price"}) /\ opt.iterations >= 1)
         => (ret.kind = "value" /\ ret.v = DiscountedMean(PutPayoffs)
               /\ Len(call.z) = opt.iterations /\ rng = call.at + opt.iterations)

\* a discounted put price averaged over a trial with a payoff and a trial
\* without one
C20_Witness ==
    /\ IsCall({"put_option_price"}) /\ opt.iterations >= 2 /\ opt.rf > 0
    /\ ret.v > 0 /\ ret.v = DiscountedMean(PutPayoffs)
    /\ \E i, j \in 1..opt.iterations : PutPayoffs[i] > 0 /\ PutPayoffs[j] = 0

\* the methods of the pricing and risk objects
MethodOps == {"call_option_price", "put_option_price", "simulation"}

\* the results the method named op can return on the objects from the draws z
Recomputed(op, z) ==
    IF op = "call_option_price" THEN {call_option_price(opt, z).ret}
    ELSE IF op = "put_option_price" THEN {put_option_price(opt, z).ret}
    ELSE {simulation(vmc, z, b).ret : b \in BOOLEAN}

\* the trial count of the object the method named op belongs to
IterationsOf(op) == IF op = "simulation" THEN vmc.iterations ELSE opt.iterations

\* C24: pricing and risk objects are never mutated and cache nothing: no step
\* changes a field of the objects, so after any sequence of
\* call_option_price(), put_option_price() and simulation() calls the fields
\* equal the constructor arguments, and every such call draws exactly
\* `iterations` fresh variates and computes its result from them.
C24_ObjectsNeverMutated ==
    [][/\ opt' = opt /\ vmc' = vmc
       /\ (call.op = "none" /\ call'.op \in MethodOps) =>
            /\ Len(call'.z) = IterationsOf(call'.op)
            /\ call'.at = rng /\ rng' = rng + IterationsOf(call'.op)
            /\ ret' \in Recomputed(call'.op, call'.z)]_vars

\* a method call on an object whose earlier call already consumed variates
C24_Witness ==
    /\ IsCall(MethodOps) /\ ret.kind = "value"
    /\ call.at >= 1 /\ IterationsOf(call.op) >= 1
    /\ rng = call.at + IterationsOf(call.op)
    /\ ret \in Recomputed(call.op, call.z)

\* the exchange of trials a and b among m trials
Transposition(m, a, b) == [j \in 1..m |-> IF j = a THEN b ELSE IF j = b THEN a ELSE j]

\* the exchanges of two trials among m trials; they generate every
\* permutation, and every assignment of draws to trials is itself a call
TrialSwaps(m) == {Transposition(m, a, b) : a \in 1..m, b \in 1..m}

\* the draws z of m trials of n steps each, trial j now getting the draws
\* that trial p[j] had
Reassigned(z, p, n) == [k \in 1..Len(z) |-> z[(p[(k - 1) \div n + 1] - 1) * n + ((k - 1) % n) + 1]]

\* the bond price of the call in progress with its draws replaced by z
BondPriceWith(z) == monte_carlo_bond_pricing(call.x, call.r0, call.kappa, call.theta, call.sigma, call.T, call.num_simulations, call.num_points, z).ret

\* C26: aggregation over trials is insensitive to trial order: assigning the
\* trials' draws to the trials in another order leaves the result of
\* monte_carlo_bond_pricing, of the option pricer and of
\* ValueAtRiskMonteCarlo.simulation unchanged.
C26_TrialOrderIrrelevant ==
    /\ IsCall(MethodOps) =>
         \A p \in TrialSwaps(IterationsOf(call.op)) : ret \in Recomputed(call.op, Reassigned(call.z, p, 1))
    /\ (IsCall({"monte_carlo_bond_pricing"}) /\ ret.kind = "value") =>
         \A p \in TrialSwaps(call.num_simulations) : ret = BondPriceWith(Reassigned(call.z, p, call.num_points))

\* a VaR run of three trials whose draws are all different
C26_Witness ==
    /\ IsCall({"simulation"}) /\ ret.kind = "value" /\ vmc.iterations = 3 /\ vmc.sigma > 0
    /\ call.z[1] # call.z[2] /\ call.z[2] # call.z[3] /\ call.z[1] # call.z[3]
    /\ ret \in Recomputed("simulation", Reassigned(call.z, Transposition(3, 1, 3), 1))

----------------------------------------------------------------------------
(* Claims about the market-data analyses, checked under SpecCrypto *)

\* the messages of the ValueErrors the analyses and fetchers raise
LengthMessage == "Number of tickers must match number of weights"

SumMessage == "Weights must sum to 1.0"

\* the tickers of a request whose history the data source holds empty
Missing(tickers) == {t \in Range(tickers) : call.market[t] = <<>>}

\* C13: crypto_portfolio_var raises ValueError when the tickers and weights
\* differ in length or the weights do not sum to 1 within 1e-6, before any
\* download or VaR computation, and the length check comes before the sum
\* check.
C13_ValidatesBeforeDownload ==
    IsCall({"crypto_portfolio_var"}) =>
        /\ Len(call.crypto_tickers) # Len(call.weights)
             => (ret.kind = "error" /\ ret.err = LengthMessage
                   /\ call.asked = <<>> /\ rng = call.at)
        /\ (Len(call.crypto_tickers) = Len(call.weights)
              /\ Abs(SumSeq(call.weights) - SCALE) > WeightTol)
             => (ret.kind = "error" /\ ret.err = SumMessage
                   /\ call.asked = <<>> /\ rng = call.at)

\* a request failing both checks while the data source holds data for it:
\* the length error is the one reported and nothing was downloaded
C13_Witness ==
    /\ IsCall({"crypto_portfolio_var"})
    /\ Len(call.crypto_tickers) # Len(call.weights)
    /\ SumSeq(call.weights) # SCALE
    /\ Missing(call.crypto_tickers) = {}
    /\ ret.err = LengthMessage /\ call.asked = <<>>

\* the tickers a call hands to the crypto fetcher, and then to the stock one
CryptoRequest ==
    CASE call.op \in {"crypto_var_analysis", "crypto_price_simulation"} -> <<call.crypto_ticker>>
      [] call.op \in {"crypto_portfolio_var", "compare_crypto_stocks", "download_crypto_data"} -> call.crypto_tickers
      [] OTHER -> <<>>

StockRequest ==
    CASE call.op = "compare_crypto_stocks" -> call.stock_tickers
      [] call.op = "download_stock_data" -> call.stocks
      [] OTHER -> <<>>

\* the call reaches its download: crypto_portfolio_var only with valid
\* weights
Downloads ==
    /\ IsCall({"download_crypto_data", "download_stock_data", "crypto_var_analysis", "crypto_portfolio_var", "crypto_price_simulation", "compare_crypto_stocks"})
    /\ call.op = "crypto_portfolio_var"
         => (Len(call.crypto_tickers) = Len(call.weights) /\ SumSeq(call.weights) = SCALE)

\* C14: when the data source holds no observation for a requested ticker,
\* the fetchers raise an error naming that ticker and return no partial
\* frame, and crypto_var_analysis, crypto_portfolio_var and
\* crypto_price_simulation pass that error on unchanged, asking the data
\* source for no ticker twice and for no other ticker.
C14_MissingDataPropagates ==
    (Downloads /\ Missing(CryptoRequest \o StockRequest) # {}) =>
        /\ ret.kind = "error"
        /\ ret.err \in {NoDataCrypto(t) : t \in Missing(CryptoRequest)}
                          \cup {NoDataStock(t) : t \in Missing(StockRequest)}
        /\ ret.err \in {NoDataCrypto(call.asked[Len(call.asked)]), NoDataStock(call.asked[Len(call.asked)])}
        /\ Cardinality(Range(call.asked)) = Len(call.asked)
        /\ Range(call.asked) \subseteq Range(CryptoRequest \o StockRequest)
        /\ rng = call.at

\* a portfolio request whose first ticker has data and whose second has
\* none: both were asked for once and the error names the second
C14_Witness ==
    /\ IsCall({"crypto_portfolio_var"}) /\ Len(call.crypto_tickers) = 2
    /\ Missing(call.crypto_tickers) = {call.crypto_tickers[2]}
    /\ call.asked = call.crypto_tickers
    /\ ret.kind = "error" /\ ret.err = NoDataCrypto(call.crypto_tickers[2])

IsNumber(a) == ~IsNaN(a) /\ ~IsInf(a)

\* C15: every Sharpe-ratio computation guards against zero volatility: the
\* rows of compare_crypto_stocks and the result of markowitz.statistics
\* report a defined sentinel there, never inf or NaN, and do not raise.
C15_SharpeGuarded ==
    /\ (IsCall({"compare_crypto_stocks"}) /\ ret.kind = "dict")
         => \A i \in 1..Len(ret.d.rows) :
              ret.d.rows[i].volatility = 0 => ret.d.rows[i].sharpe_ratio = 0
    /\ (IsCall({"statistics"}) /\ ret.d.portfolio_volatility = 0)
         => (ret.kind = "dict" /\ IsNumber(ret.d.sharpe_ratio))

\* C16: with a trial count of 1, crypto_price_simulation and
\* stock_price_monte_carlo succeed and report the statistics of a single
\* value: mean = min = max = that trial's value and a standard deviation
\* of 0, not an undefined one.
C16_SingleTrialStatistics ==
    /\ (IsCall({"crypto_price_simulation"}) /\ call.num_simulations = 1
          /\ Missing(CryptoRequest) = {} /\ Len(call.z) >= 1
          /\ Len(DropNa(call.market[call.crypto_ticker])) >= 3)
         => /\ ret.kind = "dict"
            /\ ret.d.stats.mean_final_price = Last(ret.d.simulation_df[1])
            /\ ret.d.stats.min_price = Last(ret.d.simulation_df[1])
            /\ ret.d.stats.max_price = Last(ret.d.simulation_df[1])
            /\ ret.d.stats.std_final_price = 0
    /\ (IsCall({"stock_price_monte_carlo"}) /\ call.num_simulations = 1)
         => (ret.kind = "dict" /\ ret.d.mean = ret.d.paths[1])

\* the data source holds a close on every date for every ticker asked, so
\* that every column has at least two returns
FullHistories == \A t \in DOMAIN call.market : Len(DropNa(call.market[t])) >= 3

\* C18: in the dictionaries crypto_var_analysis and crypto_portfolio_var
\* return, analytical_var, monte_carlo_var, portfolio_var and every value of
\* individual_vars are >= 0 for all inputs (here: all inputs whose price
\* histories yield a defined mean and volatility).
C18_ReportedVarNonNegative ==
    /\ (IsCall({"crypto_var_analysis"}) /\ ret.kind = "dict" /\ FullHistories
          /\ (call.use_monte_carlo => call.mc_iterations >= 1))
         => /\ IsNumber(ret.d.analytical_var) /\ ret.d.analytical_var >= 0
            /\ "monte_carlo_var" \in DOMAIN ret.d
                 => (IsNumber(ret.d.monte_carlo_var) /\ ret.d.monte_carlo_var >= 0)
    /\ (IsCall({"crypto_portfolio_var"}) /\ ret.kind = "dict" /\ FullHistories)
         => /\ IsNumber(ret.d.portfolio_var) /\ ret.d.portfolio_var >= 0
            /\ \A t \in DOMAIN ret.d.individual_vars :
                 IsNumber(ret.d.individual_vars[t]) /\ ret.d.individual_vars[t] >= 0

----------------------------------------------------------------------------
(* Claims about the CAPM object, checked under SpecCapm *)

NeedsData == {"calculate_beta", "regression", "plot_regression"}

\* C19: calculate_beta(), regression() and plot_regression() raise
\* ValueError whenever no initialize() has completed on the object before,
\* and a failed download inside initialize() leaves the object
\* uninitialized: data stays None until an initialize() completes.
C19_MethodsNeedInitialize ==
    /\ (IsCall(NeedsData) /\ ~capm.completed)
         => (ret.kind = "error"
               /\ ret.err \in {"Must call initialize() before calculate_beta()",
                                "Must call initialize() before regression()",
                                "Must call initialize() before plot_regression()"})
    /\ (IsCall({"initialize"}) /\ ret.kind = "error" /\ ~capm.completed)
         => capm.data.is_none
    /\ ~capm.completed => capm.data.is_none

\* after two initialize() calls that both failed,
\* regression() still raises
C19_Witness ==
    /\ IsCall({"regression"}) /\ capm.attempts = 2 /\ ~capm.completed
    /\ ret.kind = "error" /\ ret.err = "Must call initialize() before regression()"

----------------------------------------------------------------------------
(* Claims about the nested trial loops, checked under SpecTrials *)

\* the number of steps of one trial of the call in progress
TrialSteps == IF call.op = "monte_carlo_bond_pricing" THEN call.num_points ELSE call.N

\* the (trial, step) pairs that consume the k-th variate of the call
Consumers(k) == {p \in (1..call.num_simulations) \X (1..TrialSteps) : DrawIndex(p[1], p[2], TrialSteps) = k}

\* C21: in monte_carlo_bond_pricing and stock_price_monte_carlo a completed
\* call has taken exactly num_simulations * num_points (resp. num_simulations
\* * N) variates from the generator, and every one of them is consumed by
\* exactly one step of exactly one trial: no variate is reused or shared.
C21_EachDrawUsedOnce ==
    IsCall({"monte_carlo_bond_pricing", "stock_price_monte_carlo"}) =>
        /\ rng = call.at + call.num_simulations * TrialSteps
        /\ Len(call.z) = call.num_simulations * TrialSteps
        /\ \A k \in 1..Len(call.z) : Cardinality(Consumers(k)) = 1

\* two trials of two steps each, whose
\* paths differ because their draws differ
C21_Witness ==
    /\ IsCall({"monte_carlo_bond_pricing"}) /\ ret.kind = "value"
    /\ call.num_simulations = 2 /\ call.num_points = 2
    /\ rng = call.at + 4
    /\ BondPaths[1] # BondPaths[2]

\* the path vasicek_model returns for the draws of trial j of the call
VasicekPathOf(j) == vasicek_model(call.r0, call.kappa, call.theta, call.sigma, call.T, call.num_points, TrialDraws(call.z, j, call.num_points)).ret.x

\* the Euler-Maruyama step of the rate r over dt with the variate zk
EulerStep(r, dt, zk) == Add(r, Add(Mul(Mul(call.kappa, Sub(call.theta, r)), dt), Mul(Mul(call.sigma, Sqrt(dt)), zk)))

\* C27: each rate path simulated inside monte_carlo_bond_pricing is exactly
\* the path vasicek_model returns for the same parameters, N = num_points and
\* the same draws: num_points + 1 values starting at r0, each step adding
\* kappa*(theta - r)*dt + sigma*sqrt(dt)*z with dt = T/num_points, with no
\* floor at zero.
C27_BondPathsAreVasicekPaths ==
    (IsCall({"monte_carlo_bond_pricing"}) /\ ret.kind = "value") =>
        \A j \in 1..call.num_simulations :
            /\ BondPaths[j] = VasicekPathOf(j)
            /\ Len(BondPaths[j]) = call.num_points + 1
            /\ BondPaths[j][1] = call.r0
            /\ \A i \in 1..call.num_points :
                 BondPaths[j][i + 1] = EulerStep(BondPaths[j][i], DivInt(call.T, call.num_points), call.z[DrawIndex(j, i, call.num_points)])

\* a trial that starts at a positive rate and is carried below zero
C27_Witness ==
    /\ IsCall({"monte_carlo_bond_pricing"}) /\ ret.kind = "value"
    /\ call.num_points >= 2 /\ call.r0 > 0
    /\ \E j \in 1..call.num_simulations : \E i \in 2..call.num_points + 1 : BondPaths[j][i] < 0

\* dt times the sum of the n + 1 samples path[1] .. path[n + 1]
SampleIntegral(path, n, dt) == Mul(SumSeq([i \in 1..n + 1 |-> path[i]]), dt)

\* x times the mean over the trials of exp(-integral), each integral taken
\* over all num_points + 1 samples of the trial's path
PriceFromAllSamples == Mul(call.x, DivFloat(SumSeq([j \in 1..call.num_simulations |-> Exp(Neg(SampleIntegral(BondPaths[j], call.num_points, DivInt(call.T, call.num_points))))]), call.num_simulations))

\* x*exp(-r0*T*(num_points + 1)/num_points), with T/num_points taken first as
\* the code takes dt
FlatRatePrice == Mul(call.x, Exp(Neg(Mul((call.num_points + 1) * call.r0, DivInt(call.T, call.num_points)))))

\* C28: the discretized integral of each path is dt times the sum of all
\* num_points + 1 rate samples, r0 and the terminal rate included, with
\* dt = T/num_points; so with sigma = 0 and kappa = 0 the returned price is
\* x*exp(-r0*T*(num_points + 1)/num_points).
C28_IntegralOverAllSamples ==
    (IsCall({"monte_carlo_bond_pricing"}) /\ ret.kind = "value" /\ call.num_simulations >= 1) =>
        /\ ret.v = PriceFromAllSamples
        /\ (call.sigma = 0 /\ call.kappa = 0) => ret.v = FlatRatePrice

\* a flat positive rate over several steps: the price is the closed form and
\* lies strictly below x*exp(-r0*T), the extra sample being counted
C28_Witness ==
    /\ IsCall({"monte_carlo_bond_pricing"}) /\ ret.kind = "value"
    /\ call.num_simulations >= 1 /\ call.num_points >= 2
    /\ call.sigma = 0 /\ call.kappa = 0 /\ call.r0 > 0
    /\ ret.v = FlatRatePrice
    /\ ret.v < Mul(call.x, Exp(Neg(Mul(call.r0, call.T))))

----------------------------------------------------------------------------
(* Claims about the analytical risk computations, checked under SpecCrypto *)

\* the entries only a Monte Carlo run adds to the result dictionary
McEntries == {"monte_carlo_var", "var_difference"}

\* C30: the analytical risk computations never advance the shared generator:
\* value_at_risk_n, crypto_portfolio_var and crypto_var_analysis called with
\* use_monte_carlo = False draw no variate, the generator's position after
\* the call being its position before, and in the last case the result
\* dictionary has no monte_carlo_var and no var_difference entry.
C30_AnalyticalDrawsNothing ==
    /\ IsCall({"value_at_risk_n", "crypto_portfolio_var"}) => rng = call.at
    /\ (IsCall({"crypto_var_analysis"}) /\ ~call.use_monte_carlo) =>
         /\ rng = call.at
         /\ ret.kind = "dict" => (DOMAIN ret.d) \cap McEntries = {}

\* an analytical-only analysis run after the generator had been advanced,
\* returning its dictionary and leaving the generator where it was
C30_Witness ==
    /\ IsCall({"crypto_var_analysis"}) /\ ~call.use_monte_carlo
    /\ ret.kind = "dict" /\ "analytical_var" \in DOMAIN ret.d
    /\ call.at >= 1 /\ rng = call.at

====
